---- MODULE Spec2Model ----
(***************************************************************************)
(* State-machine model of the clipping bot's relational store and of the   *)
(* handlers that mutate it.                                                *)
(*                                                                         *)
(* The store is the SQLite schema of database.py (users, social_profiles,  *)
(* banned_profiles, campaigns, submissions, payouts).  Every mutating      *)
(* handler of the command cogs, of the button/modal views and of the       *)
(* monolithic bot.py is one action.  DatabaseService methods are async     *)
(* but contain no await, and Database.execute commits each statement, so   *)
(* a handler's reads and writes run without interleaving; the accrual tick *)
(* is the exception: it suspends at the view-count fetch, so it is split   *)
(* into the part before the fetch and the part after it.                   *)
(*                                                                         *)
(* The tick follows ViewTracker.track_views, which reads the columns of    *)
(* its rows by name.  The store methods it calls for the working set and   *)
(* for its writes are not defined in DatabaseService; they are taken from  *)
(* the SQL statements CLBot.track_views of bot.py runs at the same places. *)
(*                                                                         *)
(* Units.  View counts are plain counts that differ by multiples of        *)
(* 100,000 and money is counted in tenths of a currency unit, so that      *)
(* (views / 100000) * rate_per_100k and (views / 1000000) * rate_per_1m    *)
(* are both exact integers.                                                *)
(***************************************************************************)
EXTENDS Integers, Sequences, FiniteSets, TLC

\* ------------------------------------------------------------------ bounds
MaxProfiles    == 1
MaxBans        == 1
MaxCampaigns   == 1
MaxSubmissions == 2
MaxPayouts     == 1
MaxViews       == 2
MaxTime        == 2

\* Profiles, campaigns and submissions have unique normalized ids, names and
\* video ids: their number is bounded by the inputs the bounds above allow.
\* ------------------------------------------------------------ input domains
Creators  == {"u1"}
None      == "None"

Min2(n) == IF n <= 2 THEN n ELSE 2

Url(site, handle, upper) == [site |-> site, handle |-> handle, upper |-> upper]

\* One handle per profile the bounds allow; each in lower and in upper case,
\* and one URL of a host that is no platform's.
Handles == {<<"ann", "bob">>[i] : i \in 1 .. Min2(MaxProfiles)}

ProfileUrls ==
  {Url("instagram.com", h, up) : h \in Handles, up \in BOOLEAN} \cup {Url("example.com", "ann", FALSE)}

Platforms == {"instagram"}

\* The staff members who click the approval buttons, and the readings of the
\* clock when they do.
Staff == {"s1", "s2"}
Times == 1 .. MaxTime
Reasons   == {"spam", "fraud"}

Video(site, kind, vid, upper) == [site |-> site, kind |-> kind, vid |-> vid, upper |-> upper]

\* One video per submission the bounds allow: a reel in lower and in upper
\* case, posts, and a story, which is no video URL.
VideoUrls ==
  { Video("instagram.com", "reel", "v1", FALSE), Video("instagram.com", "reel", "v1", TRUE),
    Video("instagram.com", "stories", "v3", FALSE) }
  \cup {Video("instagram.com", "p", <<"v2", "v4">>[i], FALSE) : i \in 1 .. Min2(MaxSubmissions - 1)}

\* One name per campaign the bounds allow; commands may also name a campaign
\* that does not exist.
NewCampaignNames == {<<"c1", "c2">>[i] : i \in 1 .. Min2(MaxCampaigns)}
CampaignNames    == NewCampaignNames \cup {"c0"}

\* Money is counted in tenths of a currency unit (MoneyScale per unit); rates
\* are whole currency units, as staff type them into /campaign-create.
MoneyScale == 1000000 \div 100000

\* What /campaign-create is given: total_budget, max_earn_per_creator and
\* max_earn_per_post already in tenths, the two rates in whole units.
CampaignParams ==
  { [total_budget |-> 20, rate_per_100k |-> 1, rate_per_1m |-> 5,
     max_earn_per_creator |-> 40, max_earn_per_post |-> 20],
    [total_budget |-> 40, rate_per_100k |-> 1, rate_per_1m |-> 20,
     max_earn_per_creator |-> 60, max_earn_per_post |-> 30] }

PayoutAmounts == {10}

\* submit_video records this view count for every new submission.
StartingViews == 1000

\* The view counts the platform may report: the starting count plus whole
\* blocks of views.
ViewBlock == 100000
FetchValues == {StartingViews + k * ViewBlock : k \in 0 .. MaxViews}

\* ------------------------------------------------------------- normalizers
\* str.lower(): the only thing the model's URLs record about letter case.
Lower(url) == [url EXCEPT !.upper = FALSE]

\* str.upper() followed by str.lower() on the spellings the inputs use: the
\* sharp s (U+00DF) has the upper case "SS" and the dotless i (U+0131) the
\* upper case "I", and neither comes back; ASCII spellings do.
upper_lower(str) ==
  CASE str = "stra(U+00DF)e"         -> "strasse"
    [] str = "(U+0131)nstagram.com" -> "instagram.com"
    [] OTHER                        -> str

\* str.upper() of a lower-case URL: an upper-case URL is recorded by its
\* lower-case spelling and the flag.
Upper(url) == [url EXCEPT !.site = upper_lower(url.site), !.handle = upper_lower(url.handle),
                          !.upper = TRUE]

PlatformSite(platform) ==
  CASE platform = "instagram" -> "instagram.com"
    [] platform = "tiktok"    -> "tiktok.com"
    [] platform = "youtube"   -> "youtube.com"
    [] OTHER                  -> None

PlatformPrefix(platform) ==
  CASE platform = "instagram" -> "ig"
    [] platform = "tiktok"    -> "tt"
    [] platform = "youtube"   -> "yt"
    [] OTHER                  -> None

\* What a normalizer returns when its regex does not match (Python's None).
NoMatch == <<>>

\* Normalizer.normalize_profile_id: lower-case, then the platform's regex;
\* the id keeps the matched (lower-cased) handle.
normalize_profile_id(platform, url) ==
  LET u == Lower(url) IN
    IF PlatformSite(platform) # None /\ u.site = PlatformSite(platform) /\ u.handle # ""
    THEN <<PlatformPrefix(platform), u.handle>>
    ELSE NoMatch

\* Validator.validate_profile_url: the platform's host occurs in the URL.
validate_profile_url(platform, url) ==
  PlatformSite(platform) # None /\ Lower(url).site = PlatformSite(platform)

\* -------------------------------------------------------------------- state
VARIABLES
  users,            \* discord_id -> users row; the domain is the set of rows
  social_profiles,  \* sequence of rows; the index is the AUTOINCREMENT id
  banned_profiles,  \* set of rows [id, normalized_id, reason]
  next_ban_id,      \* AUTOINCREMENT counter of banned_profiles
  campaigns,        \* sequence of rows; the index is the id
  submissions,      \* sequence of rows; the index is the id
  payouts,          \* sequence of rows (append-only ledger)
  tick_pc,          \* "idle", or "fetch" while the tick awaits get_video_views
  tick_rows,        \* rows of the working-set snapshot not yet processed
  reply             \* what the last handler answered

vars == <<users, social_profiles, banned_profiles, next_ban_id, campaigns, submissions,
          payouts, tick_pc, tick_rows, reply>>

\* The answers multiply the reachable states without changing the store, so
\* they are recorded only in behaviours that start with reply = NoAnswer
\* (SpecAnswers, SpecSubmit); in the others reply stays Unrecorded.
Unrecorded == [to |-> None, kind |-> "unrecorded", reason |-> None]
NoAnswer   == [to |-> None, kind |-> "none", reason |-> None]

\* The answer of kind `kind` to the command `cmd`
Reply(cmd, kind, reason) ==
  IF reply = Unrecorded THEN Unrecorded ELSE [to |-> cmd, kind |-> kind, reason |-> reason]

\* verified_by and verified_at of a profile: NULL until an approval stamps
\* them.  Like the answers, the stamps are recorded only in behaviours that
\* start with reply = NoAnswer.
NotVerified == [by |-> None, at |-> 0]
Stamp(by, at) == IF reply = Unrecorded THEN NotVerified ELSE [by |-> by, at |-> at]

\* usdt_wallet is NULL until the creator sets an address.
NoWallet == [prefix |-> None, digits |-> 0, hex |-> FALSE]
NewUser == [usdt_wallet |-> NoWallet, total_earnings |-> 0, paid_earnings |-> 0,
            pending_earnings |-> 0]

ProfileIds    == 1 .. Len(social_profiles)
CampaignIds   == 1 .. Len(campaigns)
SubmissionIds == 1 .. Len(submissions)

Init ==
  /\ users = <<>>
  /\ social_profiles = <<>>
  /\ banned_profiles = {}
  /\ next_ban_id = 1
  /\ campaigns = <<>>
  /\ submissions = <<>>
  /\ payouts = <<>>
  /\ tick_pc = "idle"
  /\ tick_rows = <<>>
  /\ reply = Unrecorded

\* ------------------------------------------------------- DatabaseService
\* SELECT * FROM banned_profiles WHERE normalized_id = ?
get_banned_profile(nid) == {b \in banned_profiles : b.normalized_id = nid}

\* SELECT * FROM banned_profiles WHERE id = ?
get_ban_by_id(ban_id) == {b \in banned_profiles : b.id = ban_id}

\* A lookup that sees pending profiles only.
get_profile_by_normalized_id_pending(nid) ==
  {p \in ProfileIds : social_profiles[p].normalized_id = nid /\ social_profiles[p].status = "pending"}

\* SELECT * FROM social_profiles WHERE normalized_id = ?
get_profile_by_normalized_id(nid) ==
  {p \in ProfileIds : social_profiles[p].normalized_id = nid}

\* SELECT * FROM campaigns WHERE name = ?
get_campaign_by_name(name) == {c \in CampaignIds : campaigns[c].name = name}

\* A lookup that skips the submissions of campaigns that are not live.
get_submission_by_video_id_live(nvid) ==
  {s \in SubmissionIds : /\ submissions[s].normalized_video_id = nvid
                         /\ campaigns[submissions[s].campaign_id].status = "live"}

\* SELECT * FROM submissions WHERE normalized_video_id = ?
get_submission_by_video_id(nvid) ==
  {s \in SubmissionIds : submissions[s].normalized_video_id = nvid}

\* INSERT INTO users (discord_id) VALUES (?) unless the row exists
create_user_if_not_exists(us, u) == IF u \in DOMAIN us THEN us ELSE us @@ (u :> NewUser)

create_social_profile(u, platform, url, nid) ==
  Append(social_profiles,
         [discord_id |-> u, platform |-> platform, profile_url |-> url,
          normalized_id |-> nid, status |-> "pending", verified |-> NotVerified])

\* get_current_ist_time(): the clock does not run backwards, so a reading is
\* not before any stamp it has left.
ClockReadings == {t \in Times : \A p \in ProfileIds : social_profiles[p].verified.at <= t}

\* UPDATE social_profiles SET status = 'approved', verified_at = ?,
\*   verified_by = ? WHERE id = ?
approve_profile(pid, approved_by, now) ==
  [p \in ProfileIds |->
     IF p = pid
     THEN [social_profiles[p] EXCEPT !.status = "approved", !.verified = Stamp(approved_by, now)]
     ELSE social_profiles[p]]

\* UPDATE social_profiles SET status = 'rejected', ... WHERE id = ?
reject_profile(pid) ==
  [p \in ProfileIds |-> IF p = pid THEN [social_profiles[p] EXCEPT !.status = "rejected"]
                        ELSE social_profiles[p]]

\* The three statements of ban_profile: the banned_profiles row, the status of
\* the profile with that normalized id, the tracking flag of its submissions.
ban_insert(nid, reason) ==
  banned_profiles \cup {[id |-> next_ban_id, normalized_id |-> nid, reason |-> reason]}

ban_profiles_status(nid) ==
  [p \in ProfileIds |-> IF social_profiles[p].normalized_id = nid
                        THEN [social_profiles[p] EXCEPT !.status = "banned"]
                        ELSE social_profiles[p]]

\* A ban that leaves the submissions of the profile alone.
ban_keep_tracking(nid) == submissions

ban_stop_tracking(nid) ==
  [s \in SubmissionIds |->
     IF submissions[s].social_profile_id \in get_profile_by_normalized_id(nid)
     THEN [submissions[s] EXCEPT !.tracking = FALSE]
     ELSE submissions[s]]

\* DatabaseService.ban_profile.  The INSERT violates UNIQUE(normalized_id) when
\* the id is already banned: the method raises before its two UPDATEs.
ban_profile(cmd, nid, reason) ==
  IF get_banned_profile(nid) # {}
  THEN /\ reply' = Reply(cmd, "Error", None)
       /\ UNCHANGED <<banned_profiles, next_ban_id, social_profiles, submissions>>
  ELSE /\ next_ban_id <= MaxBans
       /\ banned_profiles' = ban_insert(nid, reason)
       /\ next_ban_id' = next_ban_id + 1
       /\ social_profiles' = ban_profiles_status(nid)
       /\ submissions' = ban_stop_tracking(nid)
       /\ reply' = Reply(cmd, "Banned", None)

\* DatabaseService.remove_ban
remove_ban_rows(nid) == {b \in banned_profiles : b.normalized_id # nid}

\* An unban that restores the profile to 'approved'.
remove_ban_status_approved(nid) ==
  [p \in ProfileIds |-> IF social_profiles[p].normalized_id = nid
                        THEN [social_profiles[p] EXCEPT !.status = "approved"]
                        ELSE social_profiles[p]]

remove_ban_status(nid) ==
  [p \in ProfileIds |-> IF social_profiles[p].normalized_id = nid
                        THEN [social_profiles[p] EXCEPT !.status = "rejected"]
                        ELSE social_profiles[p]]

\* UPDATE submissions SET status = 'approved', tracking = TRUE, ... WHERE id = ?
approve_submission_row(sid) ==
  [s \in SubmissionIds |->
     IF s = sid THEN [submissions[s] EXCEPT !.status = "approved", !.tracking = TRUE]
     ELSE submissions[s]]

\* UPDATE submissions SET status = 'rejected' WHERE id = ?
reject_submission_row(sid) ==
  [s \in SubmissionIds |->
     IF s = sid THEN [submissions[s] EXCEPT !.status = "rejected"] ELSE submissions[s]]

\* ------------------------------------------------------- Profile Registry
store_other    == <<campaigns, submissions, payouts, tick_pc, tick_rows>>

\* StaffCommands.register (UserCommands.register is the same code)
register(u, platform, url) ==
  LET nid == normalize_profile_id(platform, url) IN
  /\ IF ~validate_profile_url(platform, url) \/ nid = NoMatch
     THEN /\ reply' = Reply("register", "InvalidUrl", None)
          /\ UNCHANGED <<users, social_profiles>>
     ELSE IF get_banned_profile(nid) # {}
     THEN /\ reply' = Reply("register", "AlreadyBanned", (CHOOSE b \in get_banned_profile(nid) : TRUE).reason)
          /\ UNCHANGED <<users, social_profiles>>
     ELSE IF get_profile_by_normalized_id(nid) # {}
     THEN /\ reply' = Reply("register", "AlreadyRegistered", None)
          /\ UNCHANGED <<users, social_profiles>>
     ELSE /\ users' = create_user_if_not_exists(users, u)
          /\ social_profiles' = create_social_profile(u, platform, url, nid)
          /\ reply' = Reply("register", "Registered", None)
  /\ UNCHANGED <<banned_profiles, next_ban_id>>
  /\ UNCHANGED store_other

\* bot.py Commands.register: no validate_profile_url, and the ban reply is the
\* fixed text "This profile is banned." (the stored reason is not read).
Commands_register(u, platform, url) ==
  LET nid == normalize_profile_id(platform, url) IN
  /\ IF nid = NoMatch
     THEN /\ reply' = Reply("register", "InvalidUrl", None)
          /\ UNCHANGED <<users, social_profiles>>
     ELSE IF get_banned_profile(nid) # {}
     THEN /\ reply' = Reply("register", "AlreadyBanned", None)
          /\ UNCHANGED <<users, social_profiles>>
     ELSE IF get_profile_by_normalized_id(nid) # {}
     THEN /\ reply' = Reply("register", "AlreadyRegistered", None)
          /\ UNCHANGED <<users, social_profiles>>
     ELSE /\ users' = create_user_if_not_exists(users, u)
          /\ social_profiles' = create_social_profile(u, platform, url, nid)
          /\ reply' = Reply("register", "Registered", None)
  /\ UNCHANGED <<banned_profiles, next_ban_id>>
  /\ UNCHANGED store_other

\* The buttons below are those /approval-page sends for each profile that is
\* pending when it runs (every profile is created pending); other handlers
\* may run between the page and the click.
\* StaffCommands.approval_page.approve_callback
approve_callback(pid, staff, now) ==
  /\ pid \in ProfileIds
  /\ now \in ClockReadings
  /\ social_profiles' = approve_profile(pid, staff, now)
  /\ reply' = Reply("approve-profile", "ProfileApproved", None)
  /\ UNCHANGED <<users, banned_profiles, next_ban_id>>
  /\ UNCHANGED store_other

\* ProfileReviewView.approve_button
approve_button(pid, staff, now) ==
  /\ pid \in ProfileIds
  /\ now \in ClockReadings
  /\ IF pid \notin ProfileIds
     THEN reply' = Reply("approve-profile", "NotFound", None) /\ UNCHANGED social_profiles
     ELSE social_profiles' = approve_profile(pid, staff, now) /\ reply' = Reply("approve-profile", "ProfileApproved", None)
  /\ UNCHANGED <<users, banned_profiles, next_ban_id>>
  /\ UNCHANGED store_other

\* StaffCommands.approval_page.reject_callback.modal_submit
reject_callback(pid) ==
  /\ pid \in ProfileIds
  /\ social_profiles' = reject_profile(pid)
  /\ reply' = Reply("reject-profile", "ProfileRejected", None)
  /\ UNCHANGED <<users, banned_profiles, next_ban_id>>
  /\ UNCHANGED store_other

\* StaffCommands.approval_page.ban_callback.modal_submit: the id is normalized
\* again from the platform and URL the page showed.
ban_callback(pid, reason) ==
  LET nid == normalize_profile_id(social_profiles[pid].platform, social_profiles[pid].profile_url) IN
  /\ pid \in ProfileIds
  /\ IF nid = NoMatch
     THEN /\ reply' = Reply("ban-profile", "InvalidUrl", None)
          /\ UNCHANGED <<banned_profiles, next_ban_id, social_profiles, submissions>>
     ELSE ban_profile("ban-profile", nid, reason)
  /\ UNCHANGED <<users, campaigns, payouts, tick_pc, tick_rows>>

\* StaffCommands.ban_social
ban_social(platform, url, reason) ==
  LET nid == normalize_profile_id(platform, url) IN
  /\ IF nid = NoMatch
     THEN /\ reply' = Reply("ban-social", "InvalidUrl", None)
          /\ UNCHANGED <<banned_profiles, next_ban_id, social_profiles, submissions>>
     ELSE IF get_banned_profile(nid) # {}
     THEN /\ reply' = Reply("ban-social", "AlreadyBanned", None)
          /\ UNCHANGED <<banned_profiles, next_ban_id, social_profiles, submissions>>
     ELSE ban_profile("ban-social", nid, reason)
  /\ UNCHANGED <<users, campaigns, payouts, tick_pc, tick_rows>>

\* BanProfileModal.on_submit, opened by the "Ban Profile" button of a
\* submission message (InteractionHandlers.ban_profile_modal).
BanProfileModal_on_submit(pid, reason) ==
  /\ \E s \in SubmissionIds : submissions[s].social_profile_id = pid
  /\ IF pid \notin ProfileIds
     THEN /\ reply' = Reply("ban-profile", "NotFound", None)
          /\ UNCHANGED <<banned_profiles, next_ban_id, social_profiles, submissions>>
     ELSE ban_profile("ban-profile", social_profiles[pid].normalized_id, reason)
  /\ UNCHANGED <<users, campaigns, payouts, tick_pc, tick_rows>>

\* bot.py Events.process_ban: one transaction; the profile and its submissions
\* are addressed by the profile's id.
Events_process_ban(pid, reason) ==
  /\ pid \in ProfileIds
  /\ IF pid \notin ProfileIds
     THEN /\ reply' = Reply("ban-profile", "NotFound", None)
          /\ UNCHANGED <<banned_profiles, next_ban_id, social_profiles, submissions>>
     ELSE IF get_banned_profile(social_profiles[pid].normalized_id) # {}
     THEN /\ reply' = Reply("ban-profile", "Error", None)
          /\ UNCHANGED <<banned_profiles, next_ban_id, social_profiles, submissions>>
     ELSE /\ next_ban_id <= MaxBans
          /\ banned_profiles' = ban_insert(social_profiles[pid].normalized_id, reason)
          /\ next_ban_id' = next_ban_id + 1
          /\ social_profiles' = [social_profiles EXCEPT ![pid].status = "banned"]
          /\ submissions' = [s \in SubmissionIds |->
                               IF submissions[s].social_profile_id = pid
                               THEN [submissions[s] EXCEPT !.tracking = FALSE]
                               ELSE submissions[s]]
          /\ reply' = Reply("ban-profile", "Banned", None)
  /\ UNCHANGED <<users, campaigns, payouts, tick_pc, tick_rows>>

\* AdminCommands.ban_remove
ban_remove(ban_id) ==
  /\ IF get_ban_by_id(ban_id) = {}
     THEN /\ reply' = Reply("ban-remove", "NotFound", None)
          /\ UNCHANGED <<banned_profiles, social_profiles>>
     ELSE LET nid == (CHOOSE b \in get_ban_by_id(ban_id) : TRUE).normalized_id IN
          /\ banned_profiles' = remove_ban_rows(nid)
          /\ social_profiles' = remove_ban_status(nid)
          /\ reply' = Reply("ban-remove", "BanRemoved", None)
  /\ UNCHANGED <<users, next_ban_id>>
  /\ UNCHANGED store_other

\* ------------------------------------------------------ Campaign Registry
\* A creation that replaces the campaign of the same name by a fresh one.
campaign_create_replaces(name, params) ==
  /\ IF get_campaign_by_name(name) # {}
     THEN LET cid == CHOOSE c \in get_campaign_by_name(name) : TRUE IN
          /\ reply' = Reply("campaign-create", "DuplicateName", None)
          /\ campaigns' = [campaigns EXCEPT ![cid].remaining_budget = params.total_budget,
                                              ![cid].status = "live"]
     ELSE /\ campaigns' = Append(campaigns,
               [name |-> name, total_budget |-> params.total_budget,
                remaining_budget |-> params.total_budget,
                rate_per_100k |-> params.rate_per_100k, rate_per_1m |-> params.rate_per_1m,
                max_earn_per_creator |-> params.max_earn_per_creator,
                max_earn_per_post |-> params.max_earn_per_post, status |-> "live"])
          /\ reply' = Reply("campaign-create", "CampaignCreated", None)
  /\ UNCHANGED <<users, social_profiles, banned_profiles, next_ban_id, submissions, payouts,
                 tick_pc, tick_rows>>

\* AdminCommands.campaign_create -> CampaignService.create_campaign
campaign_create(name, params) ==
  /\ IF get_campaign_by_name(name) # {}
     THEN /\ reply' = Reply("campaign-create", "DuplicateName", None)
          /\ UNCHANGED campaigns
     ELSE /\ campaigns' = Append(campaigns,
               [name |-> name, total_budget |-> params.total_budget,
                remaining_budget |-> params.total_budget,
                rate_per_100k |-> params.rate_per_100k, rate_per_1m |-> params.rate_per_1m,
                max_earn_per_creator |-> params.max_earn_per_creator,
                max_earn_per_post |-> params.max_earn_per_post, status |-> "live"])
          /\ reply' = Reply("campaign-create", "CampaignCreated", None)
  /\ UNCHANGED <<users, social_profiles, banned_profiles, next_ban_id, submissions, payouts,
                 tick_pc, tick_rows>>

\* An end command that reopens a campaign that is not live.
campaign_end_reopens(name) ==
  /\ IF get_campaign_by_name(name) = {}
     THEN /\ reply' = Reply("campaign-end", "NotFound", None)
          /\ UNCHANGED <<campaigns, submissions>>
     ELSE LET cid == CHOOSE c \in get_campaign_by_name(name) : TRUE IN
          /\ campaigns' = [campaigns EXCEPT ![cid].status =
                             IF campaigns[cid].status = "live" THEN "ended" ELSE "live"]
          /\ submissions' = [s \in SubmissionIds |->
                               IF submissions[s].campaign_id = cid
                               THEN [submissions[s] EXCEPT !.tracking = FALSE]
                               ELSE submissions[s]]
          /\ reply' = Reply("campaign-end", "CampaignEnded", None)
  /\ UNCHANGED <<users, social_profiles, banned_profiles, next_ban_id, payouts,
                 tick_pc, tick_rows>>

\* AdminCommands.campaign_end -> CampaignService.end_campaign
campaign_end(name) ==
  /\ IF get_campaign_by_name(name) = {}
     THEN /\ reply' = Reply("campaign-end", "NotFound", None)
          /\ UNCHANGED <<campaigns, submissions>>
     ELSE LET cid == CHOOSE c \in get_campaign_by_name(name) : TRUE IN
          IF campaigns[cid].status # "live"
          THEN /\ reply' = Reply("campaign-end", "NotLive", None)
               /\ UNCHANGED <<campaigns, submissions>>
          ELSE /\ campaigns' = [campaigns EXCEPT ![cid].status = "ended"]
               /\ submissions' = [s \in SubmissionIds |->
                                    IF submissions[s].campaign_id = cid
                                    THEN [submissions[s] EXCEPT !.tracking = FALSE]
                                    ELSE submissions[s]]
               /\ reply' = Reply("campaign-end", "CampaignEnded", None)
  /\ UNCHANGED <<users, social_profiles, banned_profiles, next_ban_id, payouts,
                 tick_pc, tick_rows>>

\* ---------------------------------------------------- Submission Workflow
\* Validator.validate_video_url: the platform's video path occurs in the URL.
validate_video_url(platform, url) ==
  platform = "instagram" /\ Lower(url).site = "instagram.com" /\ url.kind \in {"reel", "p"}

\* Normalizer.normalize_video_id
normalize_video_id(platform, url) ==
  LET u == Lower(url) IN
    IF platform = "instagram" /\ u.site = "instagram.com" /\ u.kind \in {"reel", "p"}
    THEN <<"ig_video", u.vid>>
    ELSE NoMatch

\* UserCommands.clean_profile_url: lower-case, protocol and "www." removed
clean_profile_url(url) == Lower(url)

\* A match over the profiles of every creator.
match_profile_any_owner(u, url) ==
  {p \in ProfileIds :
     clean_profile_url(social_profiles[p].profile_url) = clean_profile_url(url)}

\* The profile submit_video settles on: the creator's profile whose cleaned
\* URL (or Instagram user name) equals that of the input.
match_profile(u, url) ==
  {p \in ProfileIds : /\ social_profiles[p].discord_id = u
                      /\ clean_profile_url(social_profiles[p].profile_url) = clean_profile_url(url)}

\* DatabaseService.create_submission
create_submission(u, cid, pid, url, nvid, starting_views) ==
  Append(submissions,
         [discord_id |-> u, campaign_id |-> cid, social_profile_id |-> pid,
          normalized_video_id |-> nvid,
          starting_views |-> starting_views, current_views |-> starting_views,
          earnings |-> 0, status |-> "pending", tracking |-> FALSE])

\* UserCommands.submit_video
submit_video(u, name, purl, vurl) ==
  /\ users' = create_user_if_not_exists(users, u)
  /\ IF get_campaign_by_name(name) = {}
        \/ campaigns[CHOOSE c \in get_campaign_by_name(name) : TRUE].status # "live"
     THEN /\ reply' = Reply("submit", "CampaignNotLive", None)
          /\ UNCHANGED submissions
     ELSE IF match_profile(u, purl) = {}
     THEN /\ reply' = Reply("submit", "ProfileNotFound", None)
          /\ UNCHANGED submissions
     ELSE LET pid == CHOOSE p \in match_profile(u, purl) : TRUE
              cid == CHOOSE c \in get_campaign_by_name(name) : TRUE
              pf  == social_profiles[pid].platform
              nvid == normalize_video_id(pf, vurl) IN
          IF social_profiles[pid].status # "approved"
          THEN /\ reply' = Reply("submit", "ProfileNotApproved", None)
               /\ UNCHANGED submissions
          ELSE IF ~validate_video_url(pf, vurl)
          THEN /\ reply' = Reply("submit", "InvalidUrl", None)
               /\ UNCHANGED submissions
          ELSE IF get_submission_by_video_id(nvid) # {}
          THEN /\ reply' = Reply("submit", "DuplicateVideo", None)
               /\ UNCHANGED submissions
          ELSE /\ submissions' = create_submission(u, cid, pid, vurl, nvid, StartingViews)
               /\ reply' = Reply("submit", "Submitted", None)
  /\ UNCHANGED <<social_profiles, banned_profiles, next_ban_id, campaigns, payouts,
                 tick_pc, tick_rows>>

\* The three handlers below answer the buttons of the message submit_video
\* posts for a submission, so they run for submissions that exist.
\* InteractionHandlers.approve_submission (button "approve_submission:<id>")
approve_submission(sid) ==
  /\ sid \in SubmissionIds
  /\ IF sid \notin SubmissionIds
     THEN /\ reply' = Reply("approve-submission", "NotFound", None)
          /\ UNCHANGED submissions
     ELSE /\ submissions' = approve_submission_row(sid)
          /\ reply' = Reply("approve-submission", "SubmissionApproved", None)
  /\ UNCHANGED <<users, social_profiles, banned_profiles, next_ban_id, campaigns, payouts,
                 tick_pc, tick_rows>>

\* RejectSubmissionModal.on_submit: after its two checks it calls
\* reject_submission(submission_id, reason), which takes one argument: the
\* call raises TypeError and the handler answers with its error message.
RejectSubmissionModal_on_submit(sid) ==
  /\ sid \in SubmissionIds
  /\ reply' = IF sid \notin SubmissionIds THEN Reply("reject-submission", "NotFound", None)
              ELSE IF submissions[sid].status # "pending" THEN Reply("reject-submission", "NotPending", None)
              ELSE Reply("reject-submission", "Error", None)
  /\ UNCHANGED <<users, social_profiles, banned_profiles, next_ban_id, campaigns, submissions,
                 payouts, tick_pc, tick_rows>>

\* bot.py Events.process_rejection: UPDATE submissions SET status = 'rejected'
Events_process_rejection(sid) ==
  /\ sid \in SubmissionIds
  /\ IF sid \notin SubmissionIds
     THEN /\ reply' = Reply("reject-submission", "NotFound", None)
          /\ UNCHANGED submissions
     ELSE /\ submissions' = reject_submission_row(sid)
          /\ reply' = Reply("reject-submission", "SubmissionRejected", None)
  /\ UNCHANGED <<users, social_profiles, banned_profiles, next_ban_id, campaigns, payouts,
                 tick_pc, tick_rows>>

\* ----------------------------------------------------------------- Wallets
\* A wallet address as the validator sees it: its first two characters, the
\* number of characters after them and whether all of those are hex digits.
Wallet(prefix, digits, hex) == [prefix |-> prefix, digits |-> digits, hex |-> hex]

\* Validator.validate_usdt_wallet: ^0x[a-fA-F0-9]{40}$
validate_usdt_wallet(wallet) ==
  wallet.prefix = "0x" /\ wallet.digits = 40 /\ wallet.hex

\* DatabaseService.update_user_wallet
update_user_wallet(us, u, wallet) ==
  IF u \in DOMAIN us THEN [us EXCEPT ![u].usdt_wallet = wallet] ELSE us

\* UserCommands.add_payment
add_payment(u, wallet) ==
  /\ IF ~validate_usdt_wallet(wallet)
     THEN /\ reply' = Reply("add-payment", "InvalidWallet", None)
          /\ UNCHANGED users
     ELSE /\ users' = update_user_wallet(create_user_if_not_exists(users, u), u, wallet)
          /\ reply' = Reply("add-payment", "WalletUpdated", None)
  /\ UNCHANGED <<social_profiles, banned_profiles, next_ban_id, campaigns, submissions,
                 payouts, tick_pc, tick_rows>>

\* bot.py Commands.add_payment: INSERT OR REPLACE INTO users (discord_id,
\* username, usdt_wallet) deletes the row of the same discord_id and inserts
\* one whose other columns take their defaults.
Commands_add_payment(u, wallet) ==
  /\ IF ~validate_usdt_wallet(wallet)
     THEN /\ reply' = Reply("add-payment", "InvalidWallet", None)
          /\ UNCHANGED users
     ELSE /\ users' = (u :> [NewUser EXCEPT !.usdt_wallet = wallet]) @@ users
          /\ reply' = Reply("add-payment", "WalletUpdated", None)
  /\ UNCHANGED <<social_profiles, banned_profiles, next_ban_id, campaigns, submissions,
                 payouts, tick_pc, tick_rows>>

\* ----------------------------------------------------------------- Payouts
\* A payout that adds to paid_earnings and forgets pending_earnings.
create_payout_paid_only(u, amount) ==
  [users EXCEPT ![u].paid_earnings = @ + amount]

\* DatabaseService.create_payout: the ledger row, then the balance move.
create_payout_users(u, amount) ==
  [users EXCEPT ![u].paid_earnings = @ + amount, ![u].pending_earnings = @ - amount]

\* PaymentCommands.payout_mark_paid.  database.py turns foreign keys on, so
\* the INSERT raises for a creator without a users row.
payout_mark_paid(u, name, amount) ==
  /\ IF get_campaign_by_name(name) = {}
     THEN /\ reply' = Reply("payout-mark-paid", "NotFound", None)
          /\ UNCHANGED <<payouts, users>>
     ELSE IF u \notin DOMAIN users
     THEN /\ reply' = Reply("payout-mark-paid", "Error", None)
          /\ UNCHANGED <<payouts, users>>
     ELSE /\ payouts' = Append(payouts,
               [discord_id |-> u, campaign_id |-> CHOOSE c \in get_campaign_by_name(name) : TRUE,
                amount |-> amount, status |-> "paid"])
          /\ users' = create_payout_users(u, amount)
          /\ reply' = Reply("payout-mark-paid", "PayoutRecorded", None)
  /\ UNCHANGED <<social_profiles, banned_profiles, next_ban_id, campaigns, submissions,
                 tick_pc, tick_rows>>

\* ------------------------------------------------------------ View Tracker
\* What get_video_views may return: None, or a view count.
Fetched == {[ok |-> FALSE, views |-> 0]} \cup {[ok |-> TRUE, views |-> v] : v \in FetchValues}

Max(a, b) == IF a >= b THEN a ELSE b
Min(a, b) == IF a <= b THEN a ELSE b

\* The earnings formula without its clamp to the per-post headroom.
calculate_earnings_unclamped(views, rate_100k, rate_1m, max_earn) ==
  Max((views * rate_100k * MoneyScale) \div 100000, (views * rate_1m * MoneyScale) \div 1000000)

\* The earnings formula with the lower of the two tiers.
calculate_earnings_lower_tier(views, rate_100k, rate_1m, max_earn) ==
  LET earnings_100k == (views * rate_100k * MoneyScale) \div 100000
      earnings_1m   == (views * rate_1m * MoneyScale) \div 1000000
  IN  Min(Min(earnings_100k, earnings_1m), max_earn)

\* ViewTracker.calculate_earnings, in tenths of a currency unit
calculate_earnings(views, rate_100k, rate_1m, max_earn) ==
  LET earnings_100k == (views * rate_100k * MoneyScale) \div 100000
      earnings_1m   == (views * rate_1m * MoneyScale) \div 1000000
  IN  Min(Max(earnings_100k, earnings_1m), max_earn)

\* The working-set query without its condition on the profile's status.
get_tracking_submissions_any_profile ==
  {s \in SubmissionIds :
     /\ submissions[s].tracking
     /\ submissions[s].status = "approved"
     /\ campaigns[submissions[s].campaign_id].status = "live"}

\* The working-set query without its condition on the campaign's status.
get_tracking_submissions_any_campaign ==
  {s \in SubmissionIds :
     /\ submissions[s].tracking
     /\ submissions[s].status = "approved"
     /\ social_profiles[submissions[s].social_profile_id].status # "banned"}

\* The working-set query: tracked, approved submissions of live campaigns whose
\* profile is not banned.
get_tracking_submissions ==
  {s \in SubmissionIds :
     /\ submissions[s].tracking
     /\ submissions[s].status = "approved"
     /\ campaigns[submissions[s].campaign_id].status = "live"
     /\ social_profiles[submissions[s].social_profile_id].status # "banned"}

\* A row that reports the submission's starting_views as its current_views.
tracking_row_from_start(s) ==
  LET c == campaigns[submissions[s].campaign_id] IN
  [id |-> s, discord_id |-> submissions[s].discord_id,
   campaign_id |-> submissions[s].campaign_id,
   current_views |-> submissions[s].starting_views, earnings |-> submissions[s].earnings,
   remaining_budget |-> c.remaining_budget, rate_per_100k |-> c.rate_per_100k,
   rate_per_1m |-> c.rate_per_1m, max_earn_per_post |-> c.max_earn_per_post]

\* One row of the query's result: the submission joined with its campaign, as
\* read when the tick starts.
tracking_row(s) ==
  LET c == campaigns[submissions[s].campaign_id] IN
  [id |-> s, discord_id |-> submissions[s].discord_id,
   campaign_id |-> submissions[s].campaign_id,
   current_views |-> submissions[s].current_views, earnings |-> submissions[s].earnings,
   remaining_budget |-> c.remaining_budget, rate_per_100k |-> c.rate_per_100k,
   rate_per_1m |-> c.rate_per_1m, max_earn_per_post |-> c.max_earn_per_post]

\* The query has no ORDER BY: its rows may come in any order.
Orders(S) ==
  {f \in [1 .. Cardinality(S) -> S] : \A i, j \in 1 .. Cardinality(S) : i # j => f[i] # f[j]}

\* UPDATE submissions SET tracking = ? WHERE id = ?
update_submission_tracking(subs, sid, flag) == [subs EXCEPT ![sid].tracking = flag]

\* UPDATE campaigns SET remaining_budget = 0 WHERE id = ?
exhaust_campaign_budget(camps, cid) == [camps EXCEPT ![cid].remaining_budget = 0]

\* An update that adds the views and earnings and leaves tracking alone.
update_submission_views_keep_tracking(subs, sid, views, earned, max_earn) ==
  [subs EXCEPT ![sid] = [@ EXCEPT !.current_views = views, !.earnings = @ + earned]]

\* An update that writes tracking = TRUE below the cap instead of keeping the
\* column.
update_submission_views_retrack(subs, sid, views, earned, max_earn) ==
  [subs EXCEPT ![sid] =
     [@ EXCEPT !.current_views = views,
               !.earnings = @ + earned,
               !.tracking = subs[sid].earnings + earned < max_earn]]

\* UPDATE submissions SET current_views = ?, earnings = earnings + ?,
\*   tracking = CASE WHEN earnings + ? >= ? THEN FALSE ELSE tracking END
update_submission_views(subs, sid, views, earned, max_earn) ==
  [subs EXCEPT ![sid] =
     [@ EXCEPT !.current_views = views,
               !.earnings = @ + earned,
               !.tracking = IF subs[sid].earnings + earned >= max_earn THEN FALSE ELSE @]]

\* UPDATE campaigns SET remaining_budget = remaining_budget - ? WHERE id = ?
update_campaign_budget(camps, cid, earned) ==
  [camps EXCEPT ![cid].remaining_budget = @ - earned]

\* UPDATE users SET total_earnings = total_earnings + ?,
\*   pending_earnings = pending_earnings + ? WHERE discord_id = ?
update_user_earnings(us, u, earned) ==
  IF u \in DOMAIN us
  THEN [us EXCEPT ![u].total_earnings = @ + earned, ![u].pending_earnings = @ + earned]
  ELSE us

\* An iteration that treats a grant equal to the remaining budget as an
\* overdraft.
track_submission_equal_overdraws(st, row, fetched) ==
  LET view_increase == fetched.views - row.current_views
      earnings == calculate_earnings(view_increase, row.rate_per_100k, row.rate_per_1m,
                                     row.max_earn_per_post - row.earnings)
  IN  IF ~fetched.ok \/ view_increase <= 0 \/ earnings <= 0
      THEN st
      ELSE IF earnings >= row.remaining_budget
      THEN [st EXCEPT !.campaigns = exhaust_campaign_budget(@, row.campaign_id),
                      !.submissions = update_submission_tracking(@, row.id, FALSE)]
      ELSE [st EXCEPT !.submissions = update_submission_views(@, row.id, fetched.views, earnings,
                                                               row.max_earn_per_post),
                      !.campaigns = update_campaign_budget(@, row.campaign_id, earnings),
                      !.users = update_user_earnings(@, row.discord_id, earnings)]

\* An iteration that stores every view count the fetch returns, granting only
\* for an increase.
track_submission_stores_any_count(st, row, fetched) ==
  LET view_increase == fetched.views - row.current_views
      earnings == calculate_earnings(view_increase, row.rate_per_100k, row.rate_per_1m,
                                     row.max_earn_per_post - row.earnings)
  IN  IF ~fetched.ok
      THEN st
      ELSE IF view_increase <= 0 \/ earnings <= 0
      THEN [st EXCEPT !.submissions = [@ EXCEPT ![row.id].current_views = fetched.views]]
      ELSE IF earnings > row.remaining_budget
      THEN [st EXCEPT !.campaigns = exhaust_campaign_budget(@, row.campaign_id),
                      !.submissions = update_submission_tracking(@, row.id, FALSE)]
      ELSE [st EXCEPT !.submissions = update_submission_views(@, row.id, fetched.views, earnings,
                                                               row.max_earn_per_post),
                      !.campaigns = update_campaign_budget(@, row.campaign_id, earnings),
                      !.users = update_user_earnings(@, row.discord_id, earnings)]

\* One iteration of the loop of track_views from the return of get_video_views
\* on: every number but the fetched count comes from the row read at the start.
track_submission(st, row, fetched) ==
  LET view_increase == fetched.views - row.current_views
      earnings == calculate_earnings(view_increase, row.rate_per_100k, row.rate_per_1m,
                                     row.max_earn_per_post - row.earnings)
  IN  IF ~fetched.ok \/ view_increase <= 0 \/ earnings <= 0
      THEN st
      ELSE IF earnings > row.remaining_budget
      THEN [st EXCEPT !.campaigns = exhaust_campaign_budget(@, row.campaign_id),
                      !.submissions = update_submission_tracking(@, row.id, FALSE)]
      ELSE [st EXCEPT !.submissions = update_submission_views(@, row.id, fetched.views, earnings,
                                                               row.max_earn_per_post),
                      !.campaigns = update_campaign_budget(@, row.campaign_id, earnings),
                      !.users = update_user_earnings(@, row.discord_id, earnings)]

\* The iterations that end before any fetch: a row whose remaining_budget is
\* not positive only has its submission's tracking cleared.
RECURSIVE stop_exhausted(_, _)
stop_exhausted(rows, subs) ==
  IF rows = <<>> \/ Head(rows).remaining_budget > 0
  THEN [rows |-> rows, submissions |-> subs]
  ELSE stop_exhausted(Tail(rows), update_submission_tracking(subs, Head(rows).id, FALSE))

\* ViewTracker.track_views up to its first await of get_video_views
track_views ==
  /\ tick_pc = "idle"
  /\ UNCHANGED <<users, social_profiles, banned_profiles, next_ban_id, campaigns, payouts, reply>>
  /\ \E order \in Orders(get_tracking_submissions) :
       LET rows == [i \in 1 .. Len(order) |-> tracking_row(order[i])]
           r    == stop_exhausted(rows, submissions)
       IN  /\ submissions' = r.submissions
           /\ tick_rows' = r.rows
           /\ tick_pc' = IF r.rows = <<>> THEN "idle" ELSE "fetch"

\* ViewTracker.track_views from the return of get_video_views to the next
\* await, or to the end of the loop
track_views_fetched(fetched) ==
  /\ tick_pc = "fetch"
  /\ UNCHANGED <<social_profiles, banned_profiles, next_ban_id, payouts, reply>>
  /\ LET st == track_submission([submissions |-> submissions, campaigns |-> campaigns,
                                 users |-> users], Head(tick_rows), fetched)
         r  == stop_exhausted(Tail(tick_rows), st.submissions)
     IN  /\ submissions' = r.submissions
         /\ campaigns' = st.campaigns
         /\ users' = st.users
         /\ tick_rows' = r.rows
         /\ tick_pc' = IF r.rows = <<>> THEN "idle" ELSE "fetch"

\* Step (g) of one iteration when one of its three UPDATEs raises after k of
\* them have run: Database.execute has committed each of the k, and the
\* except clause of the iteration logs the error.  (When the INSERT into
\* view_history raises instead, the store is as after a grant.)
Writes == {0, 1, 2}

track_submission_raises(st, row, fetched, earnings, k) ==
  LET w1 == [st EXCEPT !.submissions = update_submission_views(@, row.id, fetched.views, earnings,
                                                                row.max_earn_per_post)]
      w2 == [w1 EXCEPT !.campaigns = update_campaign_budget(@, row.campaign_id, earnings)]
  IN  <<st, w1, w2>>[k + 1]

\* ViewTracker.track_views from the return of get_video_views to the next
\* await when a write of step (g) raises: the loop goes on with the next row.
track_views_fetched_raises(fetched, k) ==
  /\ tick_pc = "fetch"
  /\ UNCHANGED <<social_profiles, banned_profiles, next_ban_id, payouts, reply>>
  /\ LET row == Head(tick_rows)
         view_increase == fetched.views - row.current_views
         earnings == calculate_earnings(view_increase, row.rate_per_100k, row.rate_per_1m,
                                        row.max_earn_per_post - row.earnings)
     IN  /\ fetched.ok /\ view_increase > 0 /\ earnings > 0
         /\ earnings <= row.remaining_budget
         /\ LET st == track_submission_raises([submissions |-> submissions, campaigns |-> campaigns,
                                                users |-> users], row, fetched, earnings, k)
                r  == stop_exhausted(Tail(tick_rows), st.submissions)
            IN  /\ submissions' = r.submissions
                /\ campaigns' = st.campaigns
                /\ users' = st.users
                /\ tick_rows' = r.rows
                /\ tick_pc' = IF r.rows = <<>> THEN "idle" ELSE "fetch"

\* bot.py CLBot.track_views: its only try encloses the whole loop inside
\* "with sqlite3.connect(...) as conn", so an exception raised in an
\* iteration leaves the loop, the connection rolls back every write of the
\* tick, and the handler logs TRACKING_ERROR.  The first statement of the
\* first iteration already raises: the row has 21 columns and it reads
\* submission[21].
CLBot_track_views ==
  /\ tick_pc = "idle"
  /\ get_tracking_submissions # {}
  /\ reply' = Reply("track-views", "TRACKING_ERROR", None)
  /\ UNCHANGED <<users, social_profiles, banned_profiles, next_ban_id, campaigns, submissions,
                 payouts, tick_pc, tick_rows>>

\* A tick whose failing query ends the task loop.
track_views_query_raises_stops ==
  /\ tick_pc = "idle"
  /\ reply' = Reply("track-views", "TRACKING_ERROR", "get_tracking_submissions")
  /\ tick_pc' = "stopped"
  /\ UNCHANGED <<users, social_profiles, banned_profiles, next_ban_id, campaigns, submissions,
                 payouts, tick_rows>>

\* ViewTracker.track_views (and CLBot.track_views) when the working-set query
\* raises: the loop is never entered, the outer except clause logs
\* TRACKING_ERROR with the error as its details, and the coroutine returns,
\* so the task loop calls it again at the next interval.
track_views_query_raises ==
  /\ tick_pc = "idle"
  /\ reply' = Reply("track-views", "TRACKING_ERROR", "get_tracking_submissions")
  /\ UNCHANGED <<users, social_profiles, banned_profiles, next_ban_id, campaigns, submissions,
                 payouts, tick_pc, tick_rows>>

Next ==
  \/ \E u \in Creators, pf \in Platforms, url \in ProfileUrls : register(u, pf, url)
  \/ \E u \in Creators, pf \in Platforms, url \in ProfileUrls : Commands_register(u, pf, url)
  \/ \E pid \in 1 .. MaxProfiles, staff \in Staff, now \in Times : approve_callback(pid, staff, now)
  \/ \E pid \in 1 .. MaxProfiles, staff \in Staff, now \in Times : approve_button(pid, staff, now)
  \/ \E pid \in 1 .. MaxProfiles : reject_callback(pid)
  \/ \E pid \in 1 .. MaxProfiles, r \in Reasons : ban_callback(pid, r)
  \/ \E pf \in Platforms, url \in ProfileUrls, r \in Reasons : ban_social(pf, url, r)
  \/ \E pid \in 1 .. MaxProfiles, r \in Reasons : BanProfileModal_on_submit(pid, r)
  \/ \E pid \in 1 .. MaxProfiles, r \in Reasons : Events_process_ban(pid, r)
  \/ \E b \in 1 .. MaxBans : ban_remove(b)
  \/ \E n \in NewCampaignNames, ps \in CampaignParams : campaign_create(n, ps)
  \/ \E n \in CampaignNames : campaign_end(n)
  \/ \E u \in Creators, n \in CampaignNames, purl \in ProfileUrls, vurl \in VideoUrls :
       submit_video(u, n, purl, vurl)
  \/ \E sid \in 1 .. MaxSubmissions : approve_submission(sid)
  \/ \E sid \in 1 .. MaxSubmissions : RejectSubmissionModal_on_submit(sid)
  \/ \E sid \in 1 .. MaxSubmissions : Events_process_rejection(sid)
  \/ \E u \in Creators, n \in CampaignNames, a \in PayoutAmounts :
       Len(payouts) < MaxPayouts /\ payout_mark_paid(u, n, a)
  \/ track_views
  \/ \E fetched \in Fetched : track_views_fetched(fetched)

Spec == Init /\ [][Next]_vars

\* The profile registry alone, with the answers recorded.
InitAnswers ==
  /\ users = <<>>
  /\ social_profiles = <<>>
  /\ banned_profiles = {}
  /\ next_ban_id = 1
  /\ campaigns = <<>>
  /\ submissions = <<>>
  /\ payouts = <<>>
  /\ tick_pc = "idle"
  /\ tick_rows = <<>>
  /\ reply = NoAnswer

NextAnswers ==
  \/ \E u \in Creators, pf \in Platforms, url \in ProfileUrls : register(u, pf, url)
  \/ \E u \in Creators, pf \in Platforms, url \in ProfileUrls : Commands_register(u, pf, url)
  \/ \E pid \in 1 .. MaxProfiles, staff \in Staff, now \in Times : approve_callback(pid, staff, now)
  \/ \E pid \in 1 .. MaxProfiles, staff \in Staff, now \in Times : approve_button(pid, staff, now)
  \/ \E pid \in 1 .. MaxProfiles : reject_callback(pid)
  \/ \E pid \in 1 .. MaxProfiles, r \in Reasons : ban_callback(pid, r)
  \/ \E pf \in Platforms, url \in ProfileUrls, r \in Reasons : ban_social(pf, url, r)
  \/ \E pid \in 1 .. MaxProfiles, r \in Reasons : Events_process_ban(pid, r)
  \/ \E b \in 1 .. MaxBans : ban_remove(b)

SpecAnswers == InitAnswers /\ [][NextAnswers]_vars

\* The submission intake for several creators and campaigns, with the answers
\* recorded.
MaxSubmitters == 2

Submitters          == {<<"u1", "u2">>[i] : i \in 1 .. Min2(MaxSubmitters)}
SubmitterUrls       == {Url("instagram.com", <<"ann", "bob">>[i], FALSE) : i \in 1 .. Min2(MaxSubmitters)}
SubmitCampaignNames == {<<"c1", "c2">>[i] : i \in 1 .. Min2(MaxSubmitters)}
SubmitParams        == [total_budget |-> 20, rate_per_100k |-> 1, rate_per_1m |-> 5,
                        max_earn_per_creator |-> 40, max_earn_per_post |-> 20]
SubmitVideoUrls     == {v \in VideoUrls : v.kind # "stories"}

\* Each creator registers the profile of their own handle.
OwnUrl(u) == Url("instagram.com", IF u = "u1" THEN "ann" ELSE "bob", FALSE)

NextSubmit ==
  \/ \E u \in Submitters, pf \in Platforms : register(u, pf, OwnUrl(u))
  \/ \E pid \in 1 .. MaxSubmitters : approve_callback(pid, "s1", 1)
  \/ \E pid \in 1 .. MaxSubmitters : reject_callback(pid)
  \/ \E n \in SubmitCampaignNames : campaign_create(n, SubmitParams)
  \/ \E n \in SubmitCampaignNames : campaign_end(n)
  \/ \E u \in Submitters, n \in SubmitCampaignNames, purl \in SubmitterUrls, vurl \in SubmitVideoUrls :
       submit_video(u, n, purl, vurl)

SpecSubmit == InitAnswers /\ [][NextSubmit]_vars

\* The accrual tick over one campaign with several tracked submissions.
MaxTracked == 3

TickVideoUrls == {Video("instagram.com", "p", <<"v1", "v2", "v4">>[i], FALSE) :
                    i \in 1 .. (IF MaxTracked <= 3 THEN MaxTracked ELSE 3)}
TickParams    == [total_budget |-> 40, rate_per_100k |-> 1, rate_per_1m |-> 20,
                  max_earn_per_creator |-> 60, max_earn_per_post |-> 30]

NextTick ==
  \/ register("u1", "instagram", OwnUrl("u1"))
  \/ approve_callback(1, "s1", 1)
  \/ campaign_create("c1", TickParams)
  \/ \E vurl \in TickVideoUrls : submit_video("u1", "c1", OwnUrl("u1"), vurl)
  \/ \E sid \in 1 .. MaxTracked : approve_submission(sid)
  \/ track_views
  \/ \E fetched \in Fetched : track_views_fetched(fetched)

SpecTick == Init /\ [][NextTick]_vars

\* The life of campaigns, with the answers recorded: creation, end, intake,
\* approval and accrual for one creator.
LifeCampaignNames == {"c1", "c0"}
LifeVideoUrls     == {Video("instagram.com", "p", v, FALSE) : v \in {"v1", "v2"}}

NextLife ==
  \/ register("u1", "instagram", OwnUrl("u1"))
  \/ approve_callback(1, "s1", 1)
  \/ \E r \in {"spam"} : ban_callback(1, r)
  \/ \E n \in LifeCampaignNames \ {"c0"} : campaign_create(n, TickParams)
  \/ \E n \in LifeCampaignNames : campaign_end(n)
  \/ \E n \in LifeCampaignNames, vurl \in LifeVideoUrls : submit_video("u1", n, OwnUrl("u1"), vurl)
  \/ \E sid \in 1 .. MaxSubmissions : approve_submission(sid)
  \/ track_views
  \/ \E f \in Fetched : track_views_fetched(f)

SpecLife == InitAnswers /\ [][NextLife]_vars

\* The profile registry for several creators and handles, with the answers
\* recorded.
RegistryUrls == {Url("instagram.com", h, up) : h \in {"ann", "bob"}, up \in BOOLEAN}

NextRegistry ==
  \/ \E u \in Submitters, pf \in Platforms, url \in RegistryUrls : register(u, pf, url)
  \/ \E u \in Submitters, pf \in Platforms, url \in RegistryUrls : Commands_register(u, pf, url)
  \/ \E pid \in 1 .. MaxSubmitters : approve_callback(pid, "s1", 1)
  \/ \E pid \in 1 .. MaxSubmitters : reject_callback(pid)
  \/ \E pid \in 1 .. MaxSubmitters : ban_callback(pid, "spam")
  \/ \E b \in 1 .. MaxBans : ban_remove(b)

SpecRegistry == InitAnswers /\ [][NextRegistry]_vars

\* The registry over URLs in both cases, some of them spelled with letters
\* outside ASCII, with the answers recorded.
NormalizeUrls ==
  LET lower == {Url(site, h, FALSE) : site \in {"instagram.com", "(U+0131)nstagram.com"},
                                      h \in {"ann", "stra(U+00DF)e"}}
  IN  lower \cup {Upper(u) : u \in lower}

NextNormalize ==
  \/ \E pf \in Platforms, url \in NormalizeUrls : register("u1", pf, url)
  \/ \E pf \in Platforms, url \in NormalizeUrls : ban_social(pf, url, "spam")
  \/ \E b \in 1 .. MaxBans : ban_remove(b)

SpecNormalize == InitAnswers /\ [][NextNormalize]_vars

\* The accrual tick with failing writes, over one campaign with two tracked
\* submissions, with the answers recorded.
NextFaults ==
  \/ register("u1", "instagram", OwnUrl("u1"))
  \/ approve_callback(1, "s1", 1)
  \/ campaign_create("c1", TickParams)
  \/ \E vurl \in LifeVideoUrls : submit_video("u1", "c1", OwnUrl("u1"), vurl)
  \/ \E sid \in 1 .. MaxSubmissions : approve_submission(sid)
  \/ track_views
  \/ \E fetched \in Fetched : track_views_fetched(fetched)
  \/ \E fetched \in Fetched, k \in Writes : track_views_fetched_raises(fetched, k)
  \/ CLBot_track_views

SpecFaults == InitAnswers /\ [][NextFaults]_vars

\* The accrual tick over a campaign of budget 1000, rates 10 per 100k and
\* 80 per 1m, cap 50 per post and 80 per creator, or of the rates of
\* TickParams, with increases of up to 600000 views.
ExampleParams  == [total_budget |-> 10000, rate_per_100k |-> 10, rate_per_1m |-> 80,
                   max_earn_per_creator |-> 800, max_earn_per_post |-> 500]
ExampleFetched ==
  {[ok |-> FALSE, views |-> 0]}
    \cup {[ok |-> TRUE, views |-> StartingViews + k * ViewBlock] : k \in {0, 1, 6}}

NextExample ==
  \/ register("u1", "instagram", OwnUrl("u1"))
  \/ approve_callback(1, "s1", 1)
  \/ \E ps \in {ExampleParams, TickParams} : campaign_create("c1", ps)
  \/ \E vurl \in LifeVideoUrls : submit_video("u1", "c1", OwnUrl("u1"), vurl)
  \/ \E sid \in 1 .. MaxSubmissions : approve_submission(sid)
  \/ track_views
  \/ \E fetched \in ExampleFetched : track_views_fetched(fetched)

SpecExample == Init /\ [][NextExample]_vars

\* The ledger, with the answers recorded: accrual for one creator and payouts
\* of 1.0 or 5.0, to that creator or to one who has no users row, for the
\* campaign or for one that does not exist.
MaxLedgerPayouts == 2
LedgerAmounts    == {10, 50}
LedgerUsers      == {"u1", "u2"}

NextLedger ==
  \/ register("u1", "instagram", OwnUrl("u1"))
  \/ approve_callback(1, "s1", 1)
  \/ campaign_create("c1", TickParams)
  \/ \E vurl \in LifeVideoUrls : submit_video("u1", "c1", OwnUrl("u1"), vurl)
  \/ \E sid \in 1 .. MaxSubmissions : approve_submission(sid)
  \/ \E u \in LedgerUsers, n \in LifeCampaignNames, a \in LedgerAmounts :
       Len(payouts) < MaxLedgerPayouts /\ payout_mark_paid(u, n, a)
  \/ track_views
  \/ \E fetched \in Fetched : track_views_fetched(fetched)

SpecLedger == InitAnswers /\ [][NextLedger]_vars

\* The accrual tick with a working-set query that may raise, with the
\* activity-log entries recorded.
NextQueryFault ==
  \/ register("u1", "instagram", OwnUrl("u1"))
  \/ approve_callback(1, "s1", 1)
  \/ campaign_create("c1", TickParams)
  \/ \E vurl \in LifeVideoUrls : submit_video("u1", "c1", OwnUrl("u1"), vurl)
  \/ \E sid \in 1 .. MaxSubmissions : approve_submission(sid)
  \/ track_views
  \/ \E fetched \in Fetched : track_views_fetched(fetched)
  \/ track_views_query_raises

SpecQueryFault == InitAnswers /\ [][NextQueryFault]_vars

\* Wallets and the ledger, with the answers recorded: accrual for one creator;
\* that creator and one without users row set a wallet address, valid or not.
Wallets == {Wallet("0x", 40, TRUE), Wallet("0x", 39, TRUE), Wallet("0x", 40, FALSE),
            Wallet("1x", 40, TRUE)}

NextWallet ==
  \/ register("u1", "instagram", OwnUrl("u1"))
  \/ approve_callback(1, "s1", 1)
  \/ campaign_create("c1", TickParams)
  \/ \E vurl \in LifeVideoUrls : submit_video("u1", "c1", OwnUrl("u1"), vurl)
  \/ \E sid \in 1 .. MaxSubmissions : approve_submission(sid)
  \/ track_views
  \/ \E fetched \in Fetched : track_views_fetched(fetched)
  \/ \E u \in LedgerUsers, w \in Wallets : add_payment(u, w)
  \/ \E u \in LedgerUsers, w \in Wallets : Commands_add_payment(u, w)

SpecWallet == InitAnswers /\ [][NextWallet]_vars









\* ================================================================= claims
RECURSIVE SumEarnings(_)
SumEarnings(S) ==
  IF S = {} THEN 0
  ELSE LET s == CHOOSE x \in S : TRUE IN submissions[s].earnings + SumEarnings(S \ {s})

SubmissionsOf(c) == {s \in SubmissionIds : submissions[s].campaign_id = c}

C2_EarningsSplit ==
  \A u \in DOMAIN users :
    users[u].total_earnings = users[u].paid_earnings + users[u].pending_earnings

\* C2 witness: a user who has been granted earnings and has been paid.
C2_GrantedAndPaid ==
  \E u \in DOMAIN users : users[u].total_earnings > 0 /\ users[u].paid_earnings > 0

\* C3: no submission has earned more than its campaign's max_earn_per_post.
C3_EarningsWithinCap ==
  \A s \in SubmissionIds :
    submissions[s].earnings <= campaigns[submissions[s].campaign_id].max_earn_per_post

\* C3 witness: a submission sits exactly at the cap although the rates applied
\* to the views it gained give more.
C3_CapBinds ==
  \E s \in SubmissionIds :
    LET c == campaigns[submissions[s].campaign_id] IN
      /\ submissions[s].earnings = c.max_earn_per_post
      /\ calculate_earnings_unclamped(submissions[s].current_views - submissions[s].starting_views,
                                      c.rate_per_100k, c.rate_per_1m, 0) > c.max_earn_per_post

C5_BannedIdHasBannedStatus ==
  \A p \in ProfileIds :
    get_banned_profile(social_profiles[p].normalized_id) # {} => social_profiles[p].status = "banned"

\* C6: a register step for a normalized id that is in the ban list answers
\* with the conflict that carries the stored reason, and leaves the profiles
\* and the users as they were.
C6_BannedIdNotRegistrable ==
  [][\A u \in Creators, pf \in Platforms, url \in ProfileUrls :
       LET nid == normalize_profile_id(pf, url) IN
         (/\ get_banned_profile(nid) # {}
          /\ register(u, pf, url) \/ Commands_register(u, pf, url))
         => /\ reply'.kind = "AlreadyBanned"
            /\ reply'.reason = (CHOOSE b \in get_banned_profile(nid) : TRUE).reason
            /\ UNCHANGED <<users, social_profiles>>]_vars

\* C7: a step that adds a normalized id to the ban list leaves every
\* submission of the profile with that id untracked, with its status and its
\* earnings as they were.
C7_BanStopsTracking ==
  [][\A b \in banned_profiles' \ banned_profiles : \A s \in SubmissionIds :
       social_profiles[submissions[s].social_profile_id].normalized_id = b.normalized_id
       => /\ ~submissions'[s].tracking
          /\ submissions'[s].status = submissions[s].status
          /\ submissions'[s].earnings = submissions[s].earnings]_vars

\* C7 witness: an approved submission of a live campaign with budget and
\* headroom left is untracked, and its profile is banned and in the ban list.
C7_BannedProfileSubmissionUntracked ==
  \E s \in SubmissionIds :
    LET c == campaigns[submissions[s].campaign_id]
        p == social_profiles[submissions[s].social_profile_id] IN
      /\ submissions[s].status = "approved" /\ ~submissions[s].tracking
      /\ c.status = "live" /\ c.remaining_budget > 0
      /\ submissions[s].earnings > 0 /\ submissions[s].earnings < c.max_earn_per_post
      /\ p.status = "banned" /\ get_banned_profile(p.normalized_id) # {}

\* C8: the step that ends a campaign leaves each of its submissions untracked
\* with its status as it was; a tick that starts afterwards selects none of
\* them, and a tick changes no submission it has not selected.
C8_EndedCampaignOutOfTicks ==
  [][/\ \A c \in CampaignIds :
          campaigns[c].status = "live" /\ campaigns'[c].status = "ended"
          => \A s \in SubmissionsOf(c) :
               ~submissions'[s].tracking /\ submissions'[s].status = submissions[s].status
     /\ track_views
          => \A s \in SubmissionIds :
               campaigns[submissions[s].campaign_id].status = "ended"
               => /\ submissions'[s] = submissions[s]
                  /\ \A i \in 1 .. Len(tick_rows') : tick_rows'[i].id # s
     /\ (\E fetched \in Fetched : track_views_fetched(fetched))
          => \A s \in SubmissionIds :
               (\A i \in 1 .. Len(tick_rows) : tick_rows[i].id # s)
               => submissions'[s] = submissions[s]]_vars

\* C8 witness: a campaign has ended, one of its submissions has been approved
\* since and is tracked, and no tick is in progress.
C8_EndedWithTrackedSubmission ==
  \E s \in SubmissionIds :
    /\ campaigns[submissions[s].campaign_id].status = "ended"
    /\ submissions[s].tracking /\ submissions[s].status = "approved"
    /\ social_profiles[submissions[s].social_profile_id].status = "approved"
    /\ tick_pc = "idle"

\* C9: a tracked submission is an approved one.
C9_TrackedIsApproved ==
  \A s \in SubmissionIds : submissions[s].tracking => submissions[s].status = "approved"

\* C10: a tracked submission belongs to a campaign that has not ended and to a
\* profile that is not banned.
C10_TrackedIsLiveAndNotBanned ==
  \A s \in SubmissionIds :
    submissions[s].tracking
    => /\ campaigns[submissions[s].campaign_id].status # "ended"
       /\ social_profiles[submissions[s].social_profile_id].status # "banned"

C12_StatusTerminal ==
  [][\A s \in SubmissionIds :
       submissions[s].status # "pending" => submissions'[s].status = submissions[s].status]_vars

\* C13: a step that changes a submission's tracking from false to true is the
\* approval of that submission.
C13_OnlyApproveStartsTracking ==
  [][\A s \in SubmissionIds :
       ~submissions[s].tracking /\ submissions'[s].tracking => approve_submission(s)]_vars

\* C13 witness: one submission is tracked; another, approved, of a live
\* campaign and an approved profile that was banned and unbanned, has not
\* been tracked again, and no tick is in progress.
C13_StoppedStaysStopped ==
  \E s, t \in SubmissionIds :
    /\ submissions[s].tracking
    /\ submissions[t].status = "approved" /\ ~submissions[t].tracking
    /\ campaigns[submissions[t].campaign_id].status = "live"
    /\ social_profiles[submissions[t].social_profile_id].status = "approved"
    /\ next_ban_id > 1 /\ banned_profiles = {}
    /\ tick_pc = "idle"

\* What submit requires before it looks for the video: the campaign is live,
\* the creator owns the profile, the profile is approved, the URL is a video
\* URL of the profile's platform.
SubmitRequirementsHold(u, name, purl, vurl) ==
  /\ \E c \in get_campaign_by_name(name) : campaigns[c].status = "live"
  /\ \E p \in match_profile(u, purl) :
       social_profiles[p].status = "approved" /\ validate_video_url(social_profiles[p].platform, vurl)

\* C14, as stated: no two submissions share a normalized_video_id, and every
\* submit step for a video whose normalized id is already stored answers
\* with the duplicate-video conflict and leaves the store as it was.
C14_EveryDuplicateSubmitConflicts ==
  /\ [](\A s, t \in SubmissionIds :
          s # t => submissions[s].normalized_video_id # submissions[t].normalized_video_id)
  /\ [][\A u \in Submitters, n \in SubmitCampaignNames, purl \in SubmitterUrls, vurl \in SubmitVideoUrls :
          (/\ \E pf \in Platforms : get_submission_by_video_id(normalize_video_id(pf, vurl)) # {}
           /\ submit_video(u, n, purl, vurl))
          => /\ reply'.kind = "DuplicateVideo"
             /\ UNCHANGED <<users, social_profiles, banned_profiles, next_ban_id, campaigns,
                            submissions, payouts>>]_vars

\* C14, amended: no two submissions share a normalized_video_id; a submit
\* step for a video whose normalized id is already stored inserts no
\* submission and changes nothing but, possibly, the submitter's users row;
\* when the submit meets its other requirements it answers with the
\* duplicate-video conflict and changes nothing at all, whoever submits and
\* whatever the campaign.
C14_UniqueVideoId ==
  /\ [](\A s, t \in SubmissionIds :
          s # t => submissions[s].normalized_video_id # submissions[t].normalized_video_id)
  /\ [][\A u \in Submitters, n \in SubmitCampaignNames, purl \in SubmitterUrls, vurl \in SubmitVideoUrls :
          (/\ \E pf \in Platforms : get_submission_by_video_id(normalize_video_id(pf, vurl)) # {}
           /\ submit_video(u, n, purl, vurl))
          => /\ UNCHANGED <<social_profiles, banned_profiles, next_ban_id, campaigns,
                            submissions, payouts>>
             /\ users' \in {users, create_user_if_not_exists(users, u)}
             /\ SubmitRequirementsHold(u, n, purl, vurl)
                => reply'.kind = "DuplicateVideo" /\ UNCHANGED users]_vars

\* C14 witness: the last submit was answered with the duplicate-video
\* conflict while the only stored submission belongs to a campaign that has
\* ended and to a profile that is no longer approved, so the refused submit
\* came from another creator's profile and named another campaign.
C14_DuplicateFromOtherCreatorAndCampaign ==
  /\ reply.to = "submit" /\ reply.kind = "DuplicateVideo"
  /\ Len(submissions) = 1
  /\ campaigns[submissions[1].campaign_id].status = "ended"
  /\ social_profiles[submissions[1].social_profile_id].status = "rejected"

\* The monetary fields are what they were.
MoneyUnchanged ==
  /\ \A s \in SubmissionIds : submissions'[s].earnings = submissions[s].earnings
  /\ \A c \in CampaignIds : campaigns'[c].remaining_budget = campaigns[c].remaining_budget
  /\ \A u \in DOMAIN users :
       /\ users'[u].total_earnings = users[u].total_earnings
       /\ users'[u].pending_earnings = users[u].pending_earnings

\* C15: the start of a tick, and every iteration of a tick whose fetch returns
\* the view count stored as the submission's current_views, change no
\* submission's earnings, no campaign's remaining_budget and no user's
\* total_earnings or pending_earnings.
C15_NoNewViewsNoMoney ==
  [][/\ track_views => MoneyUnchanged
     /\ (/\ tick_pc = "fetch"
         /\ track_views_fetched([ok |-> TRUE, views |-> submissions[Head(tick_rows).id].current_views]))
        => MoneyUnchanged]_vars

\* C15 witness: a tick is about to fetch the views of a submission that has
\* gained views and earnings before, is below its cap, and whose campaign has
\* budget left; the count it holds is one the fetch can return again.
C15_TickOnEarningSubmission ==
  /\ tick_pc = "fetch"
  /\ LET row == Head(tick_rows)
         sub == submissions[row.id] IN
       /\ sub.current_views > sub.starting_views /\ sub.current_views \in FetchValues
       /\ sub.earnings > 0 /\ sub.earnings < row.max_earn_per_post
       /\ sub.tracking
       /\ campaigns[row.campaign_id].remaining_budget > 0

C18_ViewsNeverDecrease ==
  [][\A s \in SubmissionIds : submissions'[s].current_views >= submissions[s].current_views]_vars

\* C18 witness: a tick has processed one of two tracked submissions and is
\* about to fetch the views of the other; both hold counts above their
\* starting_views, so the fetch can return less than what is stored.
C18_TickOverGrownCounts ==
  /\ tick_pc = "fetch" /\ Len(tick_rows) = 1
  /\ Len(submissions) = 2
  /\ \A s \in SubmissionIds :
       /\ submissions[s].tracking /\ submissions[s].status = "approved"
       /\ submissions[s].current_views > submissions[s].starting_views
       /\ \E v \in FetchValues : v < submissions[s].current_views

C20_SecondApproveChangesNothing ==
  [][\A pid \in 1 .. MaxProfiles, staff \in Staff, now \in Times :
       (/\ pid \in ProfileIds /\ social_profiles[pid].status = "approved"
        /\ approve_callback(pid, staff, now) \/ approve_button(pid, staff, now))
       => /\ social_profiles'[pid].status = social_profiles[pid].status
          /\ social_profiles'[pid].verified = social_profiles[pid].verified]_vars

\* C21: a ban-remove step for a ban that exists leaves no ban row for the
\* ban's normalized id, leaves every profile with that id 'rejected', and
\* leaves the submissions as they were, so those that are untracked stay so.
C21_UnbanRejectsAndKeepsUntracked ==
  [][\A b \in 1 .. MaxBans :
       (get_ban_by_id(b) # {} /\ ban_remove(b))
       => LET nid == (CHOOSE x \in get_ban_by_id(b) : TRUE).normalized_id IN
            /\ \A x \in banned_profiles' : x.normalized_id # nid /\ x.id # b
            /\ \A p \in ProfileIds :
                 social_profiles[p].normalized_id = nid => social_profiles'[p].status = "rejected"
            /\ \A s \in SubmissionIds :
                 social_profiles[submissions[s].social_profile_id].normalized_id = nid
                 => /\ submissions'[s] = submissions[s]
                    /\ ~submissions[s].tracking => ~submissions'[s].tracking]_vars

\* C21 witness: a ban has been issued and removed; the profile is 'rejected'
\* and its approved submission, which earned before the ban and has headroom
\* and budget left in a live campaign, is untracked.
C21_UnbannedProfileSubmissionUntracked ==
  /\ next_ban_id > 1 /\ banned_profiles = {}
  /\ \E s \in SubmissionIds :
       LET c == campaigns[submissions[s].campaign_id]
           p == social_profiles[submissions[s].social_profile_id] IN
         /\ p.status = "rejected"
         /\ submissions[s].status = "approved" /\ ~submissions[s].tracking
         /\ submissions[s].earnings > 0 /\ submissions[s].earnings < c.max_earn_per_post
         /\ c.status = "live" /\ c.remaining_budget > 0

\* C22: an end command for a name that no campaign has answers NotFound, one
\* for a campaign that is not live answers NotLive, and both leave campaigns
\* and submissions as they were; in every step, a campaign that is 'ended'
\* stays 'ended'.
C22_FailedEndChangesNothing ==
  [][/\ \A n \in LifeCampaignNames :
          campaign_end(n) =>
            /\ get_campaign_by_name(n) = {}
                 => /\ reply' = Reply("campaign-end", "NotFound", None)
                    /\ campaigns' = campaigns /\ submissions' = submissions
            /\ (\E c \in get_campaign_by_name(n) : campaigns[c].status # "live")
                 => /\ reply' = Reply("campaign-end", "NotLive", None)
                    /\ campaigns' = campaigns /\ submissions' = submissions
     /\ \A c \in CampaignIds :
          campaigns[c].status = "ended"
          => c \in 1 .. Len(campaigns') /\ campaigns'[c].status = "ended"]_vars

\* C22 witness: an end command has just been refused as NotLive for an ended
\* campaign that holds an approved submission with earnings.
C22_EndOfEndedCampaignRefused ==
  /\ reply = [to |-> "campaign-end", kind |-> "NotLive", reason |-> None]
  /\ \E s \in SubmissionIds :
       /\ campaigns[submissions[s].campaign_id].status = "ended"
       /\ submissions[s].status = "approved" /\ submissions[s].earnings > 0

\* C23: a create command for a name that a campaign already has answers
\* DuplicateName and leaves every campaign as it was; for a new name it adds
\* one campaign of that name with remaining_budget = total_budget and status
\* 'live', and leaves the others as they were.
C23_CreateDuplicateOrFresh ==
  [][\A n \in LifeCampaignNames :
       campaign_create(n, TickParams) =>
         IF get_campaign_by_name(n) # {}
         THEN /\ reply' = Reply("campaign-create", "DuplicateName", None)
              /\ campaigns' = campaigns
         ELSE /\ Len(campaigns') = Len(campaigns) + 1
              /\ \A c \in CampaignIds : campaigns'[c] = campaigns[c]
              /\ LET new == campaigns'[Len(campaigns')] IN
                   /\ new.name = n
                   /\ new.total_budget = TickParams.total_budget
                   /\ new.remaining_budget = new.total_budget
                   /\ new.status = "live"]_vars

\* C23 witness: a create command has just been refused as DuplicateName while
\* the campaign of that name is ended and has spent part of its budget.
C23_DuplicateOfSpentCampaignRefused ==
  /\ reply = [to |-> "campaign-create", kind |-> "DuplicateName", reason |-> None]
  /\ \E c \in CampaignIds :
       /\ campaigns[c].status = "ended"
       /\ campaigns[c].remaining_budget < campaigns[c].total_budget

\* The creator u owns an approved profile of the URL purl, and the campaign
\* of the name is live.
SubmitAllowed(u, name, purl) ==
  /\ \E c \in CampaignIds : campaigns[c].name = name /\ campaigns[c].status = "live"
  /\ \E p \in ProfileIds : /\ social_profiles[p].discord_id = u
                            /\ Lower(social_profiles[p].profile_url) = Lower(purl)
                            /\ social_profiles[p].status = "approved"

\* C24: a submit command answers Submitted only when the campaign is live and
\* the named profile belongs to the submitting creator and is approved; in
\* every other case it leaves the submissions as they were; a submission it
\* creates is the creator's, 'pending', untracked, with current_views equal
\* to starting_views, in that campaign and for that profile.
C24_SubmitOnlyWhenAllowed ==
  [][\A u \in Submitters, n \in SubmitCampaignNames, purl \in SubmitterUrls, vurl \in SubmitVideoUrls :
       submit_video(u, n, purl, vurl) =>
         /\ ~SubmitAllowed(u, n, purl)
              => submissions' = submissions /\ reply'.kind # "Submitted"
         /\ reply'.kind = "Submitted" <=> submissions' # submissions
         /\ submissions' # submissions
              => /\ Len(submissions') = Len(submissions) + 1
                 /\ \A s \in SubmissionIds : submissions'[s] = submissions[s]
                 /\ LET new == submissions'[Len(submissions')] IN
                      /\ new.discord_id = u
                      /\ campaigns[new.campaign_id].name = n
                      /\ social_profiles[new.social_profile_id].discord_id = u
                      /\ Lower(social_profiles[new.social_profile_id].profile_url) = Lower(purl)
                      /\ new.status = "pending" /\ ~new.tracking
                      /\ new.earnings = 0
                      /\ new.current_views = new.starting_views]_vars

\* C24 witness: after one submission was accepted, a creator who has an
\* approved profile of their own names the approved profile of the other
\* creator for a live campaign and is refused.
C24_OthersProfileRefused ==
  /\ reply = [to |-> "submit", kind |-> "ProfileNotFound", reason |-> None]
  /\ \E s \in SubmissionIds : submissions[s].status = "pending"
  /\ \E c \in CampaignIds : campaigns[c].status = "live"
  /\ \A u \in Submitters :
       \E p \in ProfileIds : social_profiles[p].discord_id = u /\ social_profiles[p].status = "approved"
  /\ Len(submissions) = 1 /\ Len(campaigns) = 1

\* No two social_profiles rows have the same normalized_id.
UniqueNormalizedId ==
  \A p, q \in ProfileIds :
    social_profiles[p].normalized_id = social_profiles[q].normalized_id => p = q

\* A register command, of either handler, for the id of a stored profile.
RegisterOfStoredId(u, pf, url) ==
  /\ register(u, pf, url) \/ Commands_register(u, pf, url)
  /\ get_profile_by_normalized_id(normalize_profile_id(pf, url)) # {}

\* C25 as stated: no two profiles share a normalized_id, and a register
\* command for the id of a stored profile, whatever its owner and status,
\* answers AlreadyRegistered and changes neither profiles nor users.
C25_StoredIdAlwaysAlreadyRegistered ==
  /\ []UniqueNormalizedId
  /\ [][\A u \in Submitters, pf \in Platforms, url \in RegistryUrls :
          RegisterOfStoredId(u, pf, url)
          => /\ reply' = Reply("register", "AlreadyRegistered", None)
             /\ UNCHANGED <<users, social_profiles>>]_vars

\* C25: no two profiles share a normalized_id, and a register command for
\* the id of a stored profile, whatever its owner and status, changes neither
\* profiles nor users and answers AlreadyBanned when the id is in the ban
\* list, AlreadyRegistered when it is not.
C25_StoredIdNeverRegisteredAgain ==
  /\ []UniqueNormalizedId
  /\ [][\A u \in Submitters, pf \in Platforms, url \in RegistryUrls :
          RegisterOfStoredId(u, pf, url)
          => /\ reply'.to = "register"
             /\ reply'.kind = IF get_banned_profile(normalize_profile_id(pf, url)) # {}
                               THEN "AlreadyBanned" ELSE "AlreadyRegistered"
             /\ UNCHANGED <<users, social_profiles>>]_vars

\* C25 witness: two creators own one profile each, one of them unbanned and
\* so 'rejected', the other approved, and a register command has just been
\* refused as AlreadyRegistered.
C25_RegisterOfStoredIdRefused ==
  /\ reply = [to |-> "register", kind |-> "AlreadyRegistered", reason |-> None]
  /\ Len(social_profiles) = 2
  /\ social_profiles[1].discord_id # social_profiles[2].discord_id
  /\ next_ban_id > 1 /\ banned_profiles = {}
  /\ {social_profiles[1].status, social_profiles[2].status} = {"rejected", "approved"}

\* C26: the normalized id stored for a profile is the one its URL in upper
\* case normalizes to: normalize_profile_id(p, u) = normalize_profile_id(p, u.upper()).
C26_UpperCaseSameId ==
  \A p \in ProfileIds :
    normalize_profile_id(social_profiles[p].platform, Upper(social_profiles[p].profile_url))
      = social_profiles[p].normalized_id

ViewTrackerErrorIsolated ==
  \A fetched \in Fetched, k \in Writes :
    track_views_fetched_raises(fetched, k)
    => /\ \A i \in 2 .. Len(tick_rows) :
            \/ \E j \in 1 .. Len(tick_rows') : tick_rows'[j] = tick_rows[i]
            \/ tick_rows[i].remaining_budget <= 0 /\ ~submissions'[tick_rows[i].id].tracking
       /\ \A s \in SubmissionIds \ {Head(tick_rows).id} :
            /\ submissions'[s].earnings = submissions[s].earnings
            /\ submissions'[s].current_views = submissions[s].current_views

\* After an error in CLBot.track_views at most one submission of the working
\* set, the failing one, is left out of the rows still to be fetched.
CLBotErrorIsolated ==
  CLBot_track_views
  => Cardinality({s \in get_tracking_submissions :
                   \A j \in 1 .. Len(tick_rows') : tick_rows'[j].id # s}) <= 1

\* C29: an error raised while a tick processes one submission does not stop
\* the tick: the other submissions of the working set are still processed,
\* and what the tick has written for earlier submissions stays.
C29_ErrorDoesNotStopTick ==
  [][ViewTrackerErrorIsolated /\ CLBotErrorIsolated]_vars

ExhaustedTickOnlyStops ==
  track_views
  => /\ \A s \in get_tracking_submissions :
          campaigns[submissions[s].campaign_id].remaining_budget <= 0
          => /\ submissions'[s].earnings = submissions[s].earnings
             /\ submissions'[s].current_views = submissions[s].current_views
             /\ \/ ~submissions'[s].tracking
                \/ \E j \in 1 .. Len(tick_rows') :
                     tick_rows'[j].id = s /\ tick_rows'[j].remaining_budget <= 0
     /\ campaigns' = campaigns /\ users' = users

\* An approved submission below its cap that is stopped while its campaign's
\* remaining_budget is not positive is not tracked again, so that no later
\* tick selects it.
ExhaustedStaysStopped ==
  \A s \in SubmissionIds :
    LET c == campaigns[submissions[s].campaign_id] IN
      (/\ c.remaining_budget <= 0 /\ c.status = "live"
       /\ submissions[s].status = "approved" /\ ~submissions[s].tracking
       /\ submissions[s].earnings < c.max_earn_per_post)
      => ~submissions'[s].tracking

\* No view count is being fetched for a submission of a campaign whose
\* remaining_budget is not positive.
NoFetchWhenExhausted ==
  tick_pc = "fetch" => campaigns[Head(tick_rows).campaign_id].remaining_budget > 0

TickRowIds == {tick_rows[i].id : i \in 1 .. Len(tick_rows)}

\* A submission the working-set query leaves out.
OutsideWorkingSet(s) ==
  \/ ~submissions[s].tracking
  \/ submissions[s].status # "approved"
  \/ campaigns[submissions[s].campaign_id].status # "live"
  \/ social_profiles[submissions[s].social_profile_id].status = "banned"

\* The start of a tick takes no submission into its rows that the query
\* leaves out, and changes no field of such a submission.
TickStartLeavesOutsideAlone ==
  track_views
  => \A s \in SubmissionIds :
       OutsideWorkingSet(s) => (s \notin TickRowIds' /\ submissions'[s] = submissions[s])

\* The rows of a tick never grow after its start.
TickRowsOnlyShrink ==
  ~track_views => TickRowIds' \subseteq TickRowIds

\* A step of the tick after its start changes only submissions among its rows,
\* the campaign of the row it processes and the user of that row.
TickStepWritesOnlyItsRows ==
  (tick_pc = "fetch" /\ \E fetched \in Fetched : track_views_fetched(fetched))
  => /\ \A s \in SubmissionIds \ TickRowIds : submissions'[s] = submissions[s]
     /\ DOMAIN submissions' = DOMAIN submissions
     /\ \A c \in DOMAIN campaigns :
          c # Head(tick_rows).campaign_id => campaigns'[c] = campaigns[c]
     /\ \A u \in DOMAIN users :
          u # Head(tick_rows).discord_id => users'[u] = users[u]

\* C33: a tick changes no field of a submission that at the start of the tick
\* is untracked, not approved, of a campaign that is not live or of a banned
\* profile, and changes no campaign and no user for such a submission: such a
\* submission is never among the tick's rows, and the tick writes only the
\* submissions among its rows, the campaign and the user of the row at hand.
C33_TickLeavesUnselectedAlone ==
  [][TickStartLeavesOutsideAlone /\ TickRowsOnlyShrink /\ TickStepWritesOnlyItsRows]_vars

\* C33 witness: a tick has granted to one submission and is still running
\* while another submission, left out at its start, has accrued nothing.
C33_UnselectedUntouchedDuringTick ==
  /\ tick_pc = "fetch"
  /\ \E s \in SubmissionIds \ TickRowIds :
       /\ OutsideWorkingSet(s)
       /\ submissions[s].earnings = 0
       /\ submissions[s].current_views = submissions[s].starting_views
  /\ \E t \in SubmissionIds : submissions[t].earnings > 0

\* C34: a payout that is recorded appends exactly one payouts row, of status
\* 'paid' and of the user, campaign and amount given, adds the amount to the
\* user's paid_earnings and takes it from pending_earnings, and leaves
\* total_earnings, every other user, every submission, every campaign and all
\* earlier payouts rows as they were.
C34_PayoutMovesPendingToPaid ==
  [][\A u \in LedgerUsers, n \in LifeCampaignNames, a \in LedgerAmounts :
       (payout_mark_paid(u, n, a) /\ reply'.kind = "PayoutRecorded")
       => /\ Len(payouts') = Len(payouts) + 1
          /\ \A i \in 1 .. Len(payouts) : payouts'[i] = payouts[i]
          /\ payouts'[Len(payouts')].status = "paid"
          /\ payouts'[Len(payouts')].discord_id = u
          /\ payouts'[Len(payouts')].amount = a
          /\ payouts'[Len(payouts')].campaign_id \in get_campaign_by_name(n)
          /\ users'[u].paid_earnings = users[u].paid_earnings + a
          /\ users'[u].pending_earnings = users[u].pending_earnings - a
          /\ users'[u].total_earnings = users[u].total_earnings
          /\ DOMAIN users' = DOMAIN users
          /\ \A w \in DOMAIN users : w # u => users'[w] = users[w]
          /\ submissions' = submissions
          /\ campaigns' = campaigns]_vars

\* C34 witness: a second payout has been recorded for a creator with
\* earnings: two rows, the amounts moved from pending to paid.
C34_SecondPayoutRecorded ==
  /\ reply.kind = "PayoutRecorded"
  /\ Len(payouts) = 2
  /\ \E u \in DOMAIN users :
       /\ users[u].total_earnings > 0
       /\ users[u].paid_earnings = payouts[1].amount + payouts[2].amount
       /\ users[u].pending_earnings = users[u].total_earnings - users[u].paid_earnings

\* C35: for every user and campaign, the earnings of the user's submissions
\* in the campaign sum to no more than the campaign's max_earn_per_creator.
C35_PerCreatorCeiling ==
  \A u \in DOMAIN users, c \in DOMAIN campaigns :
    SumEarnings({s \in SubmissionIds : submissions[s].discord_id = u
                                       /\ submissions[s].campaign_id = c})
      <= campaigns[c].max_earn_per_creator

\* C36: for every user, paid_earnings never exceeds total_earnings, and
\* pending_earnings is never negative.
C36_PaidWithinTotal ==
  \A u \in DOMAIN users :
    /\ users[u].paid_earnings <= users[u].total_earnings
    /\ users[u].pending_earnings >= 0

C38_FailedQueryOnlyLogs ==
  [][track_views_query_raises
     => /\ submissions' = submissions
        /\ campaigns' = campaigns
        /\ users' = users
        /\ payouts' = payouts
        /\ reply'.kind = "TRACKING_ERROR"
        /\ tick_pc' = "idle"
        /\ tick_rows' = <<>>
        /\ ENABLED track_views]_vars

\* C38 witness: the last activity-log entry is the TRACKING_ERROR of a failed
\* query, tracked submissions exist, and a later tick is under way.
C38_TickRunsAfterFailedQuery ==
  /\ reply.kind = "TRACKING_ERROR"
  /\ reply.reason = "get_tracking_submissions"
  /\ tick_pc = "fetch"
  /\ tick_rows # <<>>

\* What a wallet command must leave alone: every users row stays, with its
\* three earnings fields, the wallet of every other user, every profile and
\* every submission.
WalletOnly(u) ==
  /\ \A x \in DOMAIN users :
       /\ x \in DOMAIN users'
       /\ users'[x].total_earnings = users[x].total_earnings
       /\ users'[x].paid_earnings = users[x].paid_earnings
       /\ users'[x].pending_earnings = users[x].pending_earnings
       /\ x # u => users'[x].usdt_wallet = users[x].usdt_wallet
  /\ social_profiles' = social_profiles
  /\ submissions' = submissions
  /\ campaigns' = campaigns
  /\ payouts' = payouts

\* The wallet command of the cog changes only the user's usdt_wallet.
UserCommandsWalletOnly ==
  \A u \in LedgerUsers, w \in Wallets : add_payment(u, w) => WalletOnly(u)

\* The wallet command of bot.py changes only the user's usdt_wallet.
CommandsWalletOnly ==
  \A u \in LedgerUsers, w \in Wallets : Commands_add_payment(u, w) => WalletOnly(u)

\* C39: setting or updating a user's wallet changes only that user's
\* usdt_wallet: total_earnings, paid_earnings and pending_earnings of every
\* user, the profiles and the submissions stay as they were.
C39_WalletChangesOnlyWallet ==
  [][UserCommandsWalletOnly /\ CommandsWalletOnly]_vars
====
